---- MODULE Spec2Model ----
(***************************************************************************)
(* Thermolog: the recording core of the thermocouple logger.               *)
(*                                                                         *)
(* The repository holds two builds of the sketch:                          *)
(*   v2.2  src/thermocouples/thermocouples.ino                             *)
(*   v2.1  src/unnamed/part_000                                            *)
(* The variable fw fixes the build for a whole behaviour.  The recording   *)
(* functions are translated once where the two builds agree and once per   *)
(* build where they differ (loop, setRecording, manifest).                 *)
(*                                                                         *)
(* Time.  TLC integers are 32-bit signed, so the 2^32 ms range of          *)
(* millis() does not fit.  Every time stamp is therefore kept in quanta of *)
(* 4 ms (all times of the model lie on that grid), which makes             *)
(* the uint32_t wrap 2^30 quanta.  clock is the true time since power-up   *)
(* at which the most recent loop() iteration began; millis() is clock      *)
(* modulo the wrap.                                                        *)
(* Temperatures are integers in hundredths of a degree Celsius.            *)
(***************************************************************************)
EXTENDS Integers, Sequences, FiniteSets, TLC

\* ---------------------------------------------------------------------
\* Program constants
\* ---------------------------------------------------------------------
\* milliseconds to quanta of 4 ms
Q(ms) == ms \div 4

SENSOR_INTERVAL_MS == Q(500)
LOG_INTERVAL_MS == Q(5000)
BATCH_WINDOW_MS == Q(60000)
\* a capacity one line too large (sensitivity variant of BATCH_MAX_LINES)
BATCH_MAX_LINES_plus1 == BATCH_WINDOW_MS \div LOG_INTERVAL_MS + 1
BATCH_MAX_LINES == BATCH_WINDOW_MS \div LOG_INTERVAL_MS
ROTATE_BYTES == 10 * 1024 * 1024
REAL_TIME_MIN == 1609459200
MAX_SUFFIX == 99
NUM_TC == 6
\* -10.0 and 1100.0 degrees, in hundredths
TEMP_MIN == 0 - 10 * 100
TEMP_MAX == 1100 * 100

\* uint32_t arithmetic on millis(): 2^32 ms = 2^30 quanta
U32 == 1024 * 1024 * 1024
millis(t) == t % U32
Sub32(a, b) == (a - b + U32) % U32

\* float NAN, kept apart from every reading in hundredths of a degree
NAN == 0 - 9999999

\* ---------------------------------------------------------------------
\* Bounds of the model
\* ---------------------------------------------------------------------
MaxTicks == 3
MaxOdd == 1
MaxPresses == 2
MaxFaults == 1
MaxRuns == 1
MaxSteady == 1
\* calls of the sample block and of flushBatchToFile() when the batch
\* buffer is exercised on its own
MaxAppends == 13
MaxFlushes == 2
\* button presses when sessions follow each other quickly
MaxToggles == 4
\* batch windows for which a recording without a file is followed
DriftWindows == 2
IO_MS == Q(20)
RTC_EPOCH == 1700000000

\* loop() iterations that change nothing but the sensor snapshot are not
\* stepped through one by one: an iteration is modelled one sample
\* interval after the previous one, or half an interval after it.
HALF_MS == LOG_INTERVAL_MS \div 2
IoDelays == {0, IO_MS}
\* which print() of a flush returns short: 0 = none
FailPoints == {0, 1, 2}
\* what SD.open() and the println() calls behind it do:
\*   "ok"              the file is opened and its head written in full
\*   "fail"            SD.open() returns an invalid File
\*   "short:manifest"  opened; the last println() of the manifest writes nothing
\*   "short:header"    opened; the println() of the CSV header writes nothing
OpenOutcomes == {"ok", "fail", "short:manifest", "short:header"}
Builds == {"v2.1", "v2.2"}

\* thermocouple readings as the MAX6675 library returns them
AllOk == [i \in 1..NUM_TC |-> 2500]
\* one open circuit and one reading above range; every channel open
SomeBad == [AllOk EXCEPT ![1] = NAN, ![2] = 120000]
AllBad == [i \in 1..NUM_TC |-> NAN]
Snapshots == { AllOk, SomeBad, AllBad }

VARIABLES
  fw,            \* build: "v2.1" or "v2.2"
  rtc,           \* TRUE iff the wall clock has been set (time() is real)
  probe,         \* what the six MAX6675 currently return
  clock,         \* true ms since power-up at the start of the last loop()
  state,         \* RecState
  led,           \* PIN_LED level
  logFile,       \* File handle: [open, path]
  sessionPath,
  recStartMs, lastSensorMs, lastLogMs, lastBatchMs,
  batchBuf,      \* batchBuf[1..batchCount]
  latestTemps,
  card,          \* files on the SD card: path -> [rows, bytes, synced]
  trace,         \* calls made by the last handler, in order
  hist,          \* history: true times behind the uint32 stamps, last seqs
  nTicks, nOdd, nPress, nFault, nRuns, nSteady

prog == <<state, led, logFile, sessionPath, recStartMs, lastSensorMs,
          lastLogMs, lastBatchMs, batchBuf, latestTemps, card, trace, hist>>
env == <<fw, rtc, probe>>
budget == <<nTicks, nOdd, nPress, nFault, nRuns, nSteady>>
vars == <<env, clock, prog, budget>>

batchCount == Len(batchBuf)

\* ---------------------------------------------------------------------
\* The program state as one record, so that a handler is a function
\* ---------------------------------------------------------------------
Cur == [ state |-> state, led |-> led, logFile |-> logFile,
         sessionPath |-> sessionPath, recStartMs |-> recStartMs,
         lastSensorMs |-> lastSensorMs, lastLogMs |-> lastLogMs,
         lastBatchMs |-> lastBatchMs, batchBuf |-> batchBuf,
         latestTemps |-> latestTemps, card |-> card, trace |-> trace,
         hist |-> hist ]

Set(s) ==
  /\ state' = s.state
  /\ led' = s.led
  /\ logFile' = s.logFile
  /\ sessionPath' = s.sessionPath
  /\ recStartMs' = s.recStartMs
  /\ lastSensorMs' = s.lastSensorMs
  /\ lastLogMs' = s.lastLogMs
  /\ lastBatchMs' = s.lastBatchMs
  /\ batchBuf' = s.batchBuf
  /\ latestTemps' = s.latestTemps
  /\ card' = s.card
  /\ trace' = s.trace
  /\ hist' = s.hist

Ev(s, e) == [s EXCEPT !.trace = Append(@, e)]

\* The one element of a singleton.  Only({ F(x) : x \in {e} }) is F(e) with
\* e computed once, however often F uses it: intermediate states of a
\* handler are bound this way.
Only(S) == CHOOSE x \in S : TRUE

\* ---------------------------------------------------------------------
\* Text formatting: only the lengths and the fields that reach the file
\* ---------------------------------------------------------------------
RECURSIVE Digits(_)
Digits(n) == IF n < 10 THEN 1 ELSE 1 + Digits(n \div 10)

\* length of printf("%.2f") of a value given in hundredths
Fmt2Len(c) == IF c < 0 THEN 1 + Digits((0 - c) \div 100) + 3
              ELSE Digits(c \div 100) + 3

\* "%.2f" keeps hundredths of a second of elapsedMs / 1000.0f:
\* (4q + 5) div 10 without leaving 32 bits
ElapsedCs(elapsedMs) == (2 * elapsedMs + 2) \div 5

FieldLen(v) == IF v = NAN THEN 3 ELSE Fmt2Len(v)

RECURSIVE FieldsLen(_, _)
FieldsLen(temps, i) ==
  IF i > NUM_TC THEN 0 ELSE FieldLen(temps[i]) + FieldsLen(temps, i + 1)

\* bytes of a line after its two leading numbers: the two commas behind
\* them, the channel fields, the commas between those and the newline
TailLen(temps) == 1 + 1 + FieldsLen(temps, 1) + (NUM_TC - 1) + 1

\* one CSV line: "<elapsed %.2f>,<seq>,<ch1>,...,<ch6>\n"
Line(temps, elapsedMs, seq) ==
  [ k |-> "row", es |-> ElapsedCs(elapsedMs), seq |-> seq,
    ch |-> [i \in 1..NUM_TC |-> IF temps[i] = NAN THEN "NaN" ELSE "num"],
    len |-> Fmt2Len(ElapsedCs(elapsedMs)) + Digits(seq) + TailLen(temps) ]

RECURSIVE SumLen(_)
SumLen(rows) == IF rows = <<>> THEN 0 ELSE Head(rows).len + SumLen(Tail(rows))

\* Closed form of the bytes of many regular lines.
\* CountIn: how many i in 1..n have lo <= a + b*i <= hi
CountIn(a, b, n, lo, hi) ==
  LET iLo == IF lo <= a + b THEN 1 ELSE (lo - a + b - 1) \div b
      top == IF hi < a + b THEN 0 ELSE (hi - a) \div b
      iHi == IF top > n THEN n ELSE top
  IN IF iHi >= iLo THEN iHi - iLo + 1 ELSE 0

Pow10(d) == << 1, 10, 100, 1000, 10000, 100000, 1000000, 10000000,
              100000000, 1000000000 >>[d + 1]

\* sum over i in 1..n of Digits(a + b*i), for values below 10^9
RECURSIVE DigitsSumFrom(_, _, _, _)
DigitsSumFrom(a, b, n, d) ==
  IF d > 9 THEN 0
  ELSE d * CountIn(a, b, n, IF d = 1 THEN 0 ELSE Pow10(d - 1), Pow10(d) - 1)
       + DigitsSumFrom(a, b, n, d + 1)
DigitsSum(a, b, n) == DigitsSumFrom(a, b, n, 1)

\* ---------------------------------------------------------------------
\* Wall clock and session paths
\* ---------------------------------------------------------------------
\* time(nullptr) at true time t
WallClock(t) == IF rtc THEN RTC_EPOCH + t \div Q(1000) ELSE t \div Q(1000)

hasRealTime(t) == WallClock(t) > REAL_TIME_MIN

EmptyPath == [dated |-> FALSE, stamp |-> 0, suf |-> 0 - 1]

\* sessionDir, sessionFile and sessionPath are rebuilt by every call and
\* read only after it; the path is kept as (dated?, stamp, suffix):
\*   dated:  /logs/<date>/SESSION_<time>.csv, stamp = wall clock seconds
\*   else :  /logs/SESSION_ms<millis>.csv,    stamp = millis()
\* suffix 0 is the base name, suffix i the name with _<i> before .csv
BasePath(t) ==
  IF hasRealTime(t)
    THEN [dated |-> TRUE, stamp |-> WallClock(t), suf |-> 0]
    ELSE [dated |-> FALSE, stamp |-> millis(t), suf |-> 0]

buildSessionPaths(s, t) == [s EXCEPT !.sessionPath = BasePath(t)]

\* ---------------------------------------------------------------------
\* The SD card
\* ---------------------------------------------------------------------
Exists(s, p) == p \in DOMAIN s.card

\* bytes of the manifest block and of the CSV header line (println: +2)
ManifestBytes(t) ==
  IF fw = "v2.2"
    THEN 18 + 28 + (IF hasRealTime(t) THEN 26 + 24 ELSE 36)
         + 26 + 23 + 43 + 12 + 59 + 16
    ELSE 18 + 28 + 21 + (IF hasRealTime(t) THEN 26 + 24 ELSE 36)
         + 25 + 43 + 12 + 59 + 16
HeaderBytes == 43 + 2

\* bytes of the last line of the manifest, "# manifest_end"
ManifestEndBytes == 14 + 2

\* what SD.open(path, FILE_WRITE) followed by the manifest, the header line
\* and logFile.flush() leave in the file.  The results of the println()
\* calls are not looked at, so a line that was not written is just missing.
NewFile(t, sdOpen) ==
  IF sdOpen = "short:manifest"
    THEN [rows |-> << [k |-> "manifest:short"], [k |-> "header"] >>,
          bytes |-> ManifestBytes(t) - ManifestEndBytes + HeaderBytes,
          synced |-> 2]
  ELSE IF sdOpen = "short:header"
    THEN [rows |-> << [k |-> "manifest"] >>,
          bytes |-> ManifestBytes(t), synced |-> 1]
  ELSE [rows |-> << [k |-> "manifest"], [k |-> "header"] >>,
        bytes |-> ManifestBytes(t) + HeaderBytes, synced |-> 2]

\* logFile.flush()
FileSync(s) ==
  [s EXCEPT !.card[s.logFile.path].synced = Len(s.card[s.logFile.path].rows),
            !.trace = Append(@, "sync")]

FileSize(s) == s.card[s.logFile.path].bytes

\* ---------------------------------------------------------------------
\* Session file
\* ---------------------------------------------------------------------
\* the first i in 1..99 whose suffixed path does not exist, 0 if none
FirstFree(s, p0) ==
  LET free == {i \in 1..MAX_SUFFIX : ~Exists(s, [p0 EXCEPT !.suf = i])}
  IN IF free = {} THEN 0 ELSE CHOOSE i \in free : \A j \in free : i <= j

\* the suffix loop left out: the base name is kept (sensitivity variant
\* of RotatedPath)
RotatedPath_base(s, p0) == p0

\* the suffix loop: sessionPath is overwritten by the first free suffixed
\* path; when the loop runs to its end, sessionPath keeps the base path
RotatedPath(s, p0) ==
  Only({ IF i = 0 THEN p0 ELSE [p0 EXCEPT !.suf = i] : i \in {FirstFree(s, p0)} })

\* SD.open(sessionPath, FILE_WRITE) and what follows; FILE_WRITE creates
\* the file or truncates an existing one.  t is the true time of the
\* millis() and time() calls, sdOpen the outcome of SD.open and of the
\* println() calls.  hist.handles counts the File handles opened and not
\* closed.
OpenAt(s, p, t, sdOpen) ==
  IF sdOpen = "fail"
    THEN [ok |-> FALSE,
          s |-> [s EXCEPT !.sessionPath = p, !.logFile.open = FALSE,
                          !.trace = Append(@, "open:fail")]]
    ELSE [ok |-> TRUE,
          s |-> [s EXCEPT !.sessionPath = p,
                          !.logFile = [open |-> TRUE, path |-> p],
                          !.card = (p :> NewFile(t, sdOpen)) @@ @,
                          !.trace = @ \o (IF sdOpen = "ok"
                                            THEN <<"open:ok", "sync">>
                                            ELSE <<"open:ok", "head:short",
                                                   "sync">>),
                          !.batchBuf = <<>>,
                          !.lastBatchMs = millis(t),
                          !.hist = [@ EXCEPT !.lastBatchAt = t,
                                             !.handles = @ + 1]]]

openNewSessionFile(s, isRotation, t, sdOpen) ==
  Only({ Only({ OpenAt(b, p, t, sdOpen) :
                  p \in {IF isRotation THEN RotatedPath(b, b.sessionPath)
                                       ELSE b.sessionPath} }) :
           b \in {buildSessionPaths(s, t)} })

closeSessionFile(s) ==
  IF s.logFile.open
    THEN [FileSync(s) EXCEPT !.logFile.open = FALSE,
                             !.hist.handles = @ - 1,
                             !.trace = Append(@, "close")]
    ELSE s

\* a buffer one line smaller than BATCH_MAX_LINES (sensitivity variant of
\* appendLineToBatch)
appendLineToBatch_oneLineShort(s, elapsedMs, seq) ==
  IF Len(s.batchBuf) >= BATCH_MAX_LINES - 1
    THEN [ok |-> FALSE, s |-> Ev(s, "append:full")]
    ELSE [ok |-> TRUE,
          s |-> [s EXCEPT
                   !.batchBuf = Append(@, Line(s.latestTemps, elapsedMs, seq)),
                   !.trace = Append(@, "append:ok")]]

\* a full buffer drops its oldest line for the new one and still reports
\* failure (sensitivity variant of appendLineToBatch)
appendLineToBatch_dropsOldest(s, elapsedMs, seq) ==
  IF Len(s.batchBuf) >= BATCH_MAX_LINES
    THEN [ok |-> FALSE,
          s |-> [s EXCEPT
                   !.batchBuf = Append(Tail(@),
                                       Line(s.latestTemps, elapsedMs, seq)),
                   !.trace = Append(@, "append:full")]]
    ELSE [ok |-> TRUE,
          s |-> [s EXCEPT
                   !.batchBuf = Append(@, Line(s.latestTemps, elapsedMs, seq)),
                   !.trace = Append(@, "append:ok")]]

appendLineToBatch(s, elapsedMs, seq) ==
  IF Len(s.batchBuf) >= BATCH_MAX_LINES
    THEN [ok |-> FALSE, s |-> Ev(s, "append:full")]
    ELSE [ok |-> TRUE,
          s |-> [s EXCEPT
                   !.batchBuf = Append(@, Line(s.latestTemps, elapsedMs, seq)),
                   !.trace = Append(@, "append:ok")]]

\* the lines printed last to first (sensitivity variant of FlushWrite)
FlushWrite_reversed(s, done) ==
  [s EXCEPT !.card[s.logFile.path] =
     [@ EXCEPT !.rows = @ \o [i \in 1..Len(done) |-> done[Len(done) + 1 - i]],
               !.bytes = @ + SumLen(done)]]

\* logFile.print() of the lines done
FlushWrite(s, done) ==
  [s EXCEPT !.card[s.logFile.path] =
     [@ EXCEPT !.rows = @ \o done, !.bytes = @ + SumLen(done)]]

\* the lines written before the short print() taken off the buffer
\* (sensitivity variant of flushBatchToFile)
flushBatchToFile_partialCredit(s, failAt) ==
  LET n == Len(s.batchBuf)
      k == IF failAt \in 1..n THEN failAt ELSE 0
  IN IF ~s.logFile.open THEN [ok |-> FALSE, s |-> Ev(s, "flush:nofile")]
     ELSE IF n = 0 THEN [ok |-> TRUE, s |-> Ev(s, "flush:ok")]
     ELSE IF k # 0
       THEN [ok |-> FALSE,
             s |-> [Ev(FlushWrite(s, SubSeq(s.batchBuf, 1, k - 1)),
                       "flush:short")
                      EXCEPT !.batchBuf = SubSeq(s.batchBuf, k, n)]]
       ELSE [ok |-> TRUE,
             s |-> Only({ [FileSync(w) EXCEPT !.batchBuf = <<>>,
                                              !.trace = Append(@, "flush:ok")] :
                            w \in {FlushWrite(s, s.batchBuf)} })]

\* the buffer not emptied by a successful flush (sensitivity variant of
\* flushBatchToFile)
flushBatchToFile_keepsLines(s, failAt) ==
  LET n == Len(s.batchBuf)
      k == IF failAt \in 1..n THEN failAt ELSE 0
  IN IF ~s.logFile.open THEN [ok |-> FALSE, s |-> Ev(s, "flush:nofile")]
     ELSE IF n = 0 THEN [ok |-> TRUE, s |-> Ev(s, "flush:ok")]
     ELSE IF k # 0
       THEN [ok |-> FALSE,
             s |-> Ev(FlushWrite(s, SubSeq(s.batchBuf, 1, k - 1)),
                      "flush:short")]
       ELSE [ok |-> TRUE,
             s |-> Only({ [FileSync(w) EXCEPT !.trace = Append(@, "flush:ok")] :
                            w \in {FlushWrite(s, s.batchBuf)} })]

\* failAt = k > 0: the k-th logFile.print() returns short (nothing of that
\* line reaches the file); the lines before it have been written.
flushBatchToFile(s, failAt) ==
  LET n == Len(s.batchBuf)
      k == IF failAt \in 1..n THEN failAt ELSE 0
  IN IF ~s.logFile.open THEN [ok |-> FALSE, s |-> Ev(s, "flush:nofile")]
     ELSE IF n = 0 THEN [ok |-> TRUE, s |-> Ev(s, "flush:ok")]
     ELSE IF k # 0
       THEN [ok |-> FALSE,
             s |-> Ev(FlushWrite(s, SubSeq(s.batchBuf, 1, k - 1)),
                      "flush:short")]
       ELSE [ok |-> TRUE,
             s |-> Only({ [FileSync(w) EXCEPT !.batchBuf = <<>>,
                                              !.trace = Append(@, "flush:ok")] :
                            w \in {FlushWrite(s, s.batchBuf)} })]

\* the old file left open by the rotation (sensitivity variant of
\* rotateIfNeeded)
rotateIfNeeded_noClose(s, t, sdOpen) ==
  IF ~s.logFile.open THEN s
  ELSE IF FileSize(s) < ROTATE_BYTES THEN s
  ELSE Only({ openNewSessionFile(c, TRUE, t, sdOpen).s :
                c \in {[FileSync(Ev(s, "rotate")) EXCEPT
                          !.trace = Append(@, "close")]} })

rotateIfNeeded(s, t, sdOpen) ==
  IF ~s.logFile.open THEN s
  ELSE IF FileSize(s) < ROTATE_BYTES THEN s
  ELSE Only({ openNewSessionFile(c, TRUE, t, sdOpen).s :
                c \in {[FileSync(Ev(s, "rotate")) EXCEPT
                          !.logFile.open = FALSE,
                          !.hist.handles = @ - 1,
                          !.trace = Append(@, "close")]} })

\* ---------------------------------------------------------------------
\* Sensors
\* ---------------------------------------------------------------------
\* the range check left out (sensitivity variant of readMAX6675CelsiusIdx)
readMAX6675CelsiusIdx_unchecked(raw) == raw

readMAX6675CelsiusIdx(raw) ==
  IF raw # NAN /\ (raw < TEMP_MIN \/ raw > TEMP_MAX) THEN NAN ELSE raw

ReadAll == [i \in 1..NUM_TC |-> readMAX6675CelsiusIdx(probe[i])]

\* ---------------------------------------------------------------------
\* Start and stop
\* ---------------------------------------------------------------------
\* lastLogMs left as it was (sensitivity variant of Started)
Started_staleSampleTime(s, t) ==
  [s EXCEPT
     !.recStartMs = millis(t),
     !.lastBatchMs = millis(t), !.batchBuf = <<>>,
     !.led = TRUE, !.state = "RECORDING",
     !.trace = Append(@, "led:on"),
     !.hist = [@ EXCEPT !.recStartAt = t, !.lastLogAt = t,
                        !.lastBatchAt = t, !.prevSeq = 0 - 1,
                        !.lastSeq = 0 - 1, !.samples = 0]]

\* the tail of setRecording(true)
Started(s, t) ==
  [s EXCEPT
     !.recStartMs = millis(t), !.lastLogMs = millis(t),
     !.lastBatchMs = millis(t), !.batchBuf = <<>>,
     !.led = TRUE, !.state = "RECORDING",
     !.trace = Append(@, "led:on"),
     !.hist = [@ EXCEPT !.recStartAt = t, !.lastLogAt = t,
                        !.lastBatchAt = t, !.prevSeq = 0 - 1,
                        !.lastSeq = 0 - 1, !.samples = 0]]

\* the LED left as it was by the stop (sensitivity variant of Stopped)
Stopped_ledLeftOn(s, failAt) ==
  Only({ [c EXCEPT !.state = "IDLE", !.trace = Append(@, "led:off")] :
           c \in {closeSessionFile(
                    flushBatchToFile(Ev(s, "stop"), failAt).s)} })

\* the file closed before the final flush (sensitivity variant of Stopped)
Stopped_closeFirst(s, failAt) ==
  Only({ [f EXCEPT !.led = FALSE, !.state = "IDLE",
                   !.trace = Append(@, "led:off")] :
           f \in {flushBatchToFile(closeSessionFile(Ev(s, "stop")),
                                   failAt).s} })

\* setRecording(false)
Stopped(s, failAt) ==
  Only({ [c EXCEPT !.led = FALSE, !.state = "IDLE",
                   !.trace = Append(@, "led:off")] :
           c \in {closeSessionFile(
                    flushBatchToFile(Ev(s, "stop"), failAt).s)} })

StartRefused(s) ==
  [s EXCEPT !.led = FALSE, !.state = "IDLE", !.trace = Append(@, "led:off")]

\* v2.2
setRecording_v22(s, on, t, sdReady, sdOpen, failAt) ==
  IF on THEN
    IF ~sdReady
      THEN StartRefused([s EXCEPT !.trace = @ \o <<"start", "begin:fail">>])
      ELSE Only({ IF o.ok THEN Started(o.s, t) ELSE StartRefused(o.s) :
                    o \in {openNewSessionFile(
                             [s EXCEPT !.trace = @ \o <<"start", "begin:ok">>],
                             FALSE, t, sdOpen)} })
  ELSE Stopped(s, failAt)

\* v2.1: a failed SD.begin() or open is reported and otherwise ignored
setRecording_v21(s, on, t, sdReady, sdOpen, failAt) ==
  IF on THEN
    Only({ Started(o.s, t) :
             o \in {openNewSessionFile(
                      [s EXCEPT !.trace =
                         @ \o <<"start", IF sdReady THEN "begin:ok"
                                                    ELSE "begin:fail">>],
                      FALSE, t, IF sdReady THEN sdOpen ELSE "fail")} })
  ELSE Stopped(s, failAt)

setRecording(s, on, t, sdReady, sdOpen, failAt) ==
  IF fw = "v2.2" THEN setRecording_v22(s, on, t, sdReady, sdOpen, failAt)
                 ELSE setRecording_v21(s, on, t, sdReady, sdOpen, failAt)

\* ---------------------------------------------------------------------
\* loop(): the logging block, entered with state == RECORDING.
\*   tNow  true time at which the loop read now = millis()
\*   tIo   true time of the millis() calls made by a rotation
\*   f1,f2 outcome of the first flush of the iteration and of later ones
\* ---------------------------------------------------------------------
\* lastLogMs = now and the two values handed to appendLineToBatch
Sample(s, tNow) ==
  LET now == millis(tNow)
      seq == Sub32(now, s.recStartMs) \div LOG_INTERVAL_MS
  IN [s |-> [s EXCEPT !.lastLogMs = now,
                      !.trace = Append(@, "sample"),
                      !.hist = [@ EXCEPT !.lastLogAt = tNow,
                                         !.prevSeq = s.hist.lastSeq,
                                         !.lastSeq = seq,
                                         !.samples = @ + 1]],
      seq |-> seq, elapsedMs |-> Sub32(now, s.recStartMs)]

\* the buffer was full: flush and append again, or stop
AppendRetry(s, elapsedMs, seq, tIo, f1, f2) ==
  Only({ IF fl.ok THEN appendLineToBatch(fl.s, elapsedMs, seq).s
                  ELSE setRecording([fl.s EXCEPT !.hist.failed = TRUE],
                                    FALSE, tIo, TRUE, "ok", f2) :
           fl \in {flushBatchToFile(s, f1)} })

\* the sample block
LogLine(s, tNow, tIo, f1, f2) ==
  IF Sub32(millis(tNow), s.lastLogMs) < LOG_INTERVAL_MS THEN s
  ELSE Only({ Only({ IF a.ok THEN a.s
                     ELSE AppendRetry(a.s, sm.elapsedMs, sm.seq, tIo, f1, f2) :
                       a \in {appendLineToBatch(sm.s, sm.elapsedMs, sm.seq)} }) :
                sm \in {Sample(s, tNow)} })

\* the batch block passed over while no file is open (sensitivity variant
\* of BatchFlush)
BatchFlush_skippedWithoutFile(s, tNow, tIo, sdOpen, fW, f2) ==
  LET now == millis(tNow)
      due == /\ s.logFile.open
             /\ \/ Sub32(now, s.lastBatchMs) >= BATCH_WINDOW_MS
                \/ Len(s.batchBuf) >= BATCH_MAX_LINES
      g   == [s EXCEPT !.trace = Append(@, IF due THEN "batch" ELSE "nobatch"),
                       !.hist = [@ EXCEPT !.since = tNow - s.hist.lastBatchAt,
                                          !.held = Len(s.batchBuf),
                                          !.size = 0 - 1]]
  IN IF ~due THEN g
     ELSE Only({ IF ~w.ok
                   THEN setRecording([w.s EXCEPT !.hist.failed = TRUE],
                                     FALSE, tIo, TRUE, "ok", f2)
                   ELSE Only({ rotateIfNeeded(x, tIo, sdOpen) :
                                 x \in {[w.s EXCEPT
                                           !.lastBatchMs = now,
                                           !.hist = [@ EXCEPT
                                              !.lastBatchAt = tNow,
                                              !.size = FileSize(w.s)]]} }) :
                 w \in {flushBatchToFile(g, fW)} })

\* the batch block with the failure of the flush only reported (sensitivity
\* variant of BatchFlush)
BatchFlush_failureIgnored(s, tNow, tIo, sdOpen, fW, f2) ==
  LET now == millis(tNow)
      due == \/ Sub32(now, s.lastBatchMs) >= BATCH_WINDOW_MS
             \/ Len(s.batchBuf) >= BATCH_MAX_LINES
      g   == [s EXCEPT !.trace = Append(@, IF due THEN "batch" ELSE "nobatch"),
                       !.hist = [@ EXCEPT !.since = tNow - s.hist.lastBatchAt,
                                          !.held = Len(s.batchBuf),
                                          !.size = 0 - 1]]
  IN IF ~due THEN g
     ELSE Only({ IF ~w.ok
                   THEN [w.s EXCEPT !.hist.failed = TRUE]
                   ELSE Only({ rotateIfNeeded(x, tIo, sdOpen) :
                                 x \in {[w.s EXCEPT
                                           !.lastBatchMs = now,
                                           !.hist = [@ EXCEPT
                                              !.lastBatchAt = tNow,
                                              !.size = FileSize(w.s)]]} }) :
                 w \in {flushBatchToFile(g, fW)} })

\* the batch block.  hist keeps what the condition saw: the true time since
\* lastBatchMs was set, the lines held, and the file size the rotation
\* check reads.
BatchFlush(s, tNow, tIo, sdOpen, fW, f2) ==
  LET now == millis(tNow)
      due == \/ Sub32(now, s.lastBatchMs) >= BATCH_WINDOW_MS
             \/ Len(s.batchBuf) >= BATCH_MAX_LINES
      g   == [s EXCEPT !.trace = Append(@, IF due THEN "batch" ELSE "nobatch"),
                       !.hist = [@ EXCEPT !.since = tNow - s.hist.lastBatchAt,
                                          !.held = Len(s.batchBuf),
                                          !.size = 0 - 1]]
  IN IF ~due THEN g
     ELSE Only({ IF ~w.ok
                   THEN setRecording([w.s EXCEPT !.hist.failed = TRUE],
                                     FALSE, tIo, TRUE, "ok", f2)
                   ELSE Only({ rotateIfNeeded(x, tIo, sdOpen) :
                                 x \in {[w.s EXCEPT
                                           !.lastBatchMs = now,
                                           !.hist = [@ EXCEPT
                                              !.lastBatchAt = tNow,
                                              !.size = FileSize(w.s)]]} }) :
                 w \in {flushBatchToFile(g, fW)} })

Logging(s, tNow, tIo, sdOpen, f1, f2) ==
  LET retried == /\ Sub32(millis(tNow), s.lastLogMs) >= LOG_INTERVAL_MS
                 /\ Len(s.batchBuf) >= BATCH_MAX_LINES
  IN Only({ BatchFlush(a, tNow, tIo, sdOpen, IF retried THEN f2 ELSE f1, f2) :
              a \in {LogLine(s, tNow, tIo, f1, f2)} })

SensorPoll(s, now) ==
  IF Sub32(now, s.lastSensorMs) >= SENSOR_INTERVAL_MS
    THEN [s EXCEPT !.lastSensorMs = now, !.latestTemps = ReadAll]
    ELSE s

\* v2.2: now is read at the top; the button handler runs d ms later
loop_v22(s0, t, d, btn, sdReady, sdOpen, f1, f2) ==
  Only({ IF s2.state = "RECORDING"
           THEN Logging(s2, t, t + d, sdOpen, f1, f2)
           ELSE s2 :
         s2 \in { IF btn
                    THEN Only({ setRecording_v22(s1, s1.state # "RECORDING",
                                                 t + d, sdReady, sdOpen, f1) :
                                  s1 \in {SensorPoll(s0, millis(t))} })
                    ELSE SensorPoll(s0, millis(t)) } })

\* v2.1: the sensors are read on every iteration and now is read after the
\* button handler
loop_v21(s0, t, d, btn, sdReady, sdOpen, f1, f2) ==
  Only({ IF s2.state = "RECORDING"
           THEN Logging(s2, IF btn THEN t + d ELSE t,
                        IF btn THEN t + d + d ELSE t + d, sdOpen, f1, f2)
           ELSE s2 :
         s2 \in { IF btn
                    THEN Only({ setRecording_v21(s1, s1.state # "RECORDING",
                                                 t + d, sdReady, sdOpen, f1) :
                                  s1 \in {[s0 EXCEPT !.latestTemps = ReadAll]} })
                    ELSE [s0 EXCEPT !.latestTemps = ReadAll] } })

\* the logging block entered whatever the state (sensitivity variant of
\* loop)
loop_logsWhenIdle(s0, t, d, btn, sdReady, sdOpen, f1, f2) ==
  Only({ IF r.state = "IDLE" THEN Logging(r, t, t + d, sdOpen, f1, f2) ELSE r :
           r \in {IF fw = "v2.2"
                    THEN loop_v22(s0, t, d, btn, sdReady, sdOpen, f1, f2)
                    ELSE loop_v21(s0, t, d, btn, sdReady, sdOpen, f1, f2)} })

loop(s0, t, d, btn, sdReady, sdOpen, f1, f2) ==
  IF fw = "v2.2" THEN loop_v22(s0, t, d, btn, sdReady, sdOpen, f1, f2)
                 ELSE loop_v21(s0, t, d, btn, sdReady, sdOpen, f1, f2)

\* ---------------------------------------------------------------------
\* Initial state: after setup()
\* ---------------------------------------------------------------------
SETUP_MS == Q(100 + 200)

NoHist == [recStartAt |-> 0, lastLogAt |-> SETUP_MS, lastBatchAt |-> SETUP_MS,
           prevSeq |-> 0 - 1, lastSeq |-> 0 - 1, samples |-> 0,
           since |-> 0, held |-> 0, size |-> 0 - 1, failed |-> FALSE,
           handles |-> 0]

Booted ==
  /\ clock = SETUP_MS
  /\ state = "IDLE"
  /\ led = FALSE
  /\ logFile = [open |-> FALSE, path |-> EmptyPath]
  /\ sessionPath = EmptyPath
  /\ recStartMs = 0
  /\ lastSensorMs = IF fw = "v2.2" THEN SETUP_MS ELSE 0
  /\ lastLogMs = SETUP_MS
  /\ lastBatchMs = SETUP_MS
  /\ batchBuf = <<>>
  /\ latestTemps = [i \in 1..NUM_TC |-> NAN]
  /\ trace = <<>>
  /\ hist = NoHist
  /\ nTicks = 0
  /\ nOdd = 0
  /\ nPress = 0
  /\ nFault = 0
  /\ nRuns = 0
  /\ nSteady = 0

Init ==
  /\ fw \in Builds
  /\ rtc \in BOOLEAN
  /\ probe \in Snapshots
  /\ card = <<>>
  /\ Booted

\* ---------------------------------------------------------------------
\* Actions
\* ---------------------------------------------------------------------
\* a rotation is within reach of this iteration's flush
NearRotation ==
  /\ logFile.open
  /\ card[logFile.path].bytes + SumLen(batchBuf) + 100 >= ROTATE_BYTES

\* One iteration of loop(), dt ms after the previous one.  Inputs that the
\* iteration cannot consume are not enumerated.  A start that fails is
\* bounded by the button presses, every other storage failure by nFault.
Loop ==
  /\ nTicks < MaxTicks
  /\ \E dt \in {LOG_INTERVAL_MS} \cup
                (IF nOdd < MaxOdd /\ state = "RECORDING" THEN {HALF_MS} ELSE {}) :
     \E btn \in {FALSE} \cup (IF nPress < MaxPresses THEN {TRUE} ELSE {}) :
     \E ok \in {TRUE} \cup (IF nFault < MaxFaults \/ (btn /\ state = "IDLE")
                            THEN {FALSE} ELSE {}) :
     \E sdReady \in (IF ~ok /\ btn /\ state = "IDLE" THEN BOOLEAN ELSE {TRUE}) :
     \E sdOpen \in (IF ~ok /\ ((btn /\ state = "IDLE" /\ sdReady) \/ NearRotation)
                      THEN OpenOutcomes ELSE {"ok"}) :
     \E d \in (IF (btn /\ state = "IDLE") \/ NearRotation
                 THEN IoDelays ELSE {0}) :
     \E f1 \in (IF ~ok /\ state = "RECORDING" THEN FailPoints ELSE {0}) :
     \E f2 \in (IF f1 # 0 THEN FailPoints ELSE {0}) :
        /\ ok = (sdReady /\ sdOpen = "ok" /\ f1 = 0)
        /\ \E s0 \in {[Cur EXCEPT !.trace = <<"loop">>]} :
           \E r \in {loop(s0, clock + dt, d, btn, sdReady, sdOpen, f1, f2)} :
              Set(r)
        /\ clock' = clock + dt
        /\ nTicks' = nTicks + 1
        /\ nOdd' = IF dt = HALF_MS THEN nOdd + 1 ELSE nOdd
        /\ nPress' = IF btn THEN nPress + 1 ELSE nPress
        /\ nFault' = IF ok \/ (btn /\ state = "IDLE") THEN nFault
                                                   ELSE nFault + 1
        /\ UNCHANGED <<env, nRuns, nSteady>>

\* Regular iterations: loop() one sample interval after the previous
\* iteration, with no button press and no storage failure.  Run is the
\* composition of such Loop steps up to the last one before an iteration
\* that attempts a flush.
Regular(s, t) ==
  Only({ loop(s0, t + LOG_INTERVAL_MS, 0, FALSE, TRUE, "ok", 0, 0) :
           s0 \in {[s EXCEPT !.trace = <<"loop">>]} })

\* the regular iteration after true time t would attempt a flush
FlushNext(s, t) ==
  LET now == millis(t + LOG_INTERVAL_MS)
      due == Sub32(now, s.lastLogMs) >= LOG_INTERVAL_MS
      cnt == Len(s.batchBuf) + (IF due THEN 1 ELSE 0)
  IN \/ s.state # "RECORDING"
     \/ cnt >= BATCH_MAX_LINES
     \/ Sub32(now, s.lastBatchMs) >= BATCH_WINDOW_MS

RECURSIVE RunTo(_, _, _)
RunTo(s, t, n) ==
  IF n = 0 \/ FlushNext(s, t) THEN [s |-> s, t |-> t]
  ELSE Only({ RunTo(x, t + LOG_INTERVAL_MS, n - 1) : x \in {Regular(s, t)} })

Run ==
  /\ nRuns < MaxRuns
  /\ state = "RECORDING"
  /\ \E s0 \in {Cur} :
       /\ ~FlushNext(s0, clock)
       /\ \E r \in {RunTo(s0, clock, BATCH_MAX_LINES)} :
             Set(r.s) /\ clock' = r.t
  /\ nRuns' = nRuns + 1
  /\ UNCHANGED <<env, nTicks, nOdd, nPress, nFault, nSteady>>

\* Whole batch windows of regular operation: starting right after a flush
\* (empty buffer, lastLogMs = lastBatchMs = now), m windows of twelve
\* iterations one sample interval apart, with no button press, no storage
\* failure and no rotation.  The state after them is given in closed form;
\* Steady takes as many windows as fit below the rotation threshold and
\* then runs on to the last iteration before the next flush.
\*   q0    elapsed time since recStartMs at the start
\*   line i (1..12m): elapsed q0 + i*LOG_INTERVAL_MS, seq q0/LOG_INTERVAL_MS + i
SteadyQ0 == Sub32(millis(clock), recStartMs)
SteadySec0 == ElapsedCs(SteadyQ0) \div 100
SteadySeq0 == SteadyQ0 \div LOG_INTERVAL_MS
SEC_PER_LINE == LOG_INTERVAL_MS \div Q(1000)
LINES_PER_WINDOW == BATCH_WINDOW_MS \div LOG_INTERVAL_MS

SteadyBytes(m) ==
  DigitsSum(SteadySec0, SEC_PER_LINE, LINES_PER_WINDOW * m)
  + 3 * LINES_PER_WINDOW * m
  + DigitsSum(SteadySeq0, 1, LINES_PER_WINDOW * m)
  + LINES_PER_WINDOW * m * TailLen(ReadAll)

SteadyFits(m) ==
  /\ SteadyQ0 + m * BATCH_WINDOW_MS < U32
  /\ card[logFile.path].bytes + SteadyBytes(m) < ROTATE_BYTES

RECURSIVE SteadyMax(_, _)
SteadyMax(lo, hi) ==
  IF lo >= hi THEN lo
  ELSE Only({ IF SteadyFits(mid) THEN SteadyMax(mid, hi)
                                 ELSE SteadyMax(lo, mid - 1) :
                mid \in {(lo + hi + 1) \div 2} })

SteadyState(m) ==
  LET n  == LINES_PER_WINDOW * m
      t  == clock + m * BATCH_WINDOW_MS
      f  == card[logFile.path]
  IN [Cur EXCEPT
        !.lastSensorMs = IF fw = "v2.2" THEN millis(t) ELSE @,
        !.latestTemps = ReadAll,
        !.lastLogMs = millis(t),
        !.lastBatchMs = millis(t),
        !.card[logFile.path] =
           [rows |-> Append(f.rows, [k |-> "bulk", n |-> n,
                                     first |-> SteadySeq0 + 1,
                                     last |-> SteadySeq0 + n]),
            bytes |-> f.bytes + SteadyBytes(m),
            synced |-> Len(f.rows) + 1],
        !.trace = <<"steady">>,
        !.hist = [@ EXCEPT !.lastLogAt = t, !.lastBatchAt = t,
                           !.prevSeq = SteadySeq0 + n - 1,
                           !.lastSeq = SteadySeq0 + n,
                           !.samples = @ + n,
                           !.since = BATCH_WINDOW_MS,
                           !.held = LINES_PER_WINDOW,
                           !.size = f.bytes + SteadyBytes(m)]]

Steady ==
  /\ nSteady < MaxSteady
  /\ state = "RECORDING"
  /\ logFile.open
  /\ batchBuf = <<>>
  /\ lastLogMs = millis(clock)
  /\ lastBatchMs = millis(clock)
  /\ SteadyFits(1)
  /\ \E m \in {SteadyMax(1, (U32 - 1 - SteadyQ0) \div BATCH_WINDOW_MS)} :
     \E w \in {SteadyState(m)} :
     \E r \in {RunTo(w, clock + m * BATCH_WINDOW_MS, BATCH_MAX_LINES)} :
        Set(r.s) /\ clock' = r.t
  /\ nSteady' = nSteady + 1
  /\ UNCHANGED <<env, nTicks, nOdd, nPress, nFault, nRuns>>

Next == Loop \/ Run \/ Steady

Spec == Init /\ [][Next]_vars

TypeOK ==
  /\ state \in {"IDLE", "RECORDING"}
  /\ led \in BOOLEAN
  /\ logFile.open \in BOOLEAN
  /\ logFile.open => logFile.path \in DOMAIN card
  /\ hist.samples >= 0

\* ---------------------------------------------------------------------
\* openNewSessionFile(true) on a card that already holds session files.
\* The card is whatever earlier power cycles left behind: the base name of
\* the moment and its first k suffixed names.
\* ---------------------------------------------------------------------
PreCard(k, withBase) ==
  [p \in { [BasePath(clock) EXCEPT !.suf = i] :
             i \in (1..k) \cup (IF withBase THEN {0} ELSE {}) }
     |-> NewFile(clock, "ok")]

InitOpen ==
  /\ fw \in Builds
  /\ rtc \in BOOLEAN
  /\ probe = AllOk
  /\ Booted
  /\ \E k \in 0..MAX_SUFFIX : \E withBase \in BOOLEAN :
        card = PreCard(k, withBase)

OpenRotation ==
  /\ trace = <<>>
  /\ \E sdOpen \in OpenOutcomes :
     \E s0 \in {[Cur EXCEPT !.trace = <<"openNewSessionFile(true)">>]} :
     \E r \in {openNewSessionFile(s0, TRUE, clock, sdOpen)} :
        Set(r.s)
  /\ UNCHANGED <<env, clock, budget>>

NextOpen == OpenRotation

SpecOpen == InitOpen /\ [][NextOpen]_vars

\* ---------------------------------------------------------------------
\* The batch buffer on its own: after a start, the sample block of loop()
\* and flushBatchToFile() are called one at a time in any order, so that
\* the buffer is also met full by an append and half written by a flush.
\* nTicks counts the calls of the sample block, nRuns those of the flush.
\* ---------------------------------------------------------------------
InitBatch ==
  /\ fw \in Builds
  /\ rtc \in BOOLEAN
  /\ probe \in Snapshots
  /\ card = <<>>
  /\ Booted

\* setRecording(true), d ms after the previous call
StartCall ==
  /\ state = "IDLE"
  /\ nPress < MaxPresses
  /\ \E ok \in {TRUE} \cup (IF nFault < MaxFaults THEN {FALSE} ELSE {}) :
     \E sdReady \in (IF ok THEN {TRUE} ELSE BOOLEAN) :
     \E sdOpen \in (IF ok THEN {"ok"}
                    ELSE IF sdReady THEN OpenOutcomes \ {"ok"} ELSE {"fail"}) :
     \E d \in IoDelays :
        /\ \E s0 \in {[Cur EXCEPT !.trace = <<"setRecording(true)">>]} :
           \E r \in {setRecording(s0, TRUE, clock + d, sdReady, sdOpen, 0)} :
              Set(r)
        /\ clock' = clock + d
        /\ nFault' = IF ok THEN nFault ELSE nFault + 1
  /\ nPress' = nPress + 1
  /\ UNCHANGED <<env, nTicks, nOdd, nRuns, nSteady>>

\* the sample block of loop(), one sample interval after the previous call
SampleCall ==
  /\ state = "RECORDING"
  /\ nTicks < MaxAppends
  /\ \E f1 \in (IF batchCount >= BATCH_MAX_LINES /\ nFault < MaxFaults
                  THEN FailPoints ELSE {0}) :
     \E f2 \in (IF f1 # 0 THEN FailPoints ELSE {0}) :
        /\ \E s0 \in {[Cur EXCEPT !.trace = <<"sample block">>,
                                  !.latestTemps = ReadAll]} :
           \E r \in {LogLine(s0, clock + LOG_INTERVAL_MS,
                             clock + LOG_INTERVAL_MS, f1, f2)} :
              Set(r)
        /\ nFault' = IF f1 = 0 THEN nFault ELSE nFault + 1
  /\ clock' = clock + LOG_INTERVAL_MS
  /\ nTicks' = nTicks + 1
  /\ UNCHANGED <<env, nOdd, nPress, nRuns, nSteady>>

FlushCall ==
  /\ trace # <<>>
  /\ nRuns < MaxFlushes
  /\ \E failAt \in {k \in FailPoints : k <= batchCount} :
     \E s0 \in {[Cur EXCEPT !.trace = <<"flushBatchToFile">>]} :
     \E r \in {flushBatchToFile(s0, failAt)} :
        Set(r.s)
  /\ nRuns' = nRuns + 1
  /\ UNCHANGED <<env, clock, nTicks, nOdd, nPress, nFault, nSteady>>

NextBatch == StartCall \/ SampleCall \/ FlushCall

SpecBatch == InitBatch /\ [][NextBatch]_vars

\* ---------------------------------------------------------------------
\* loop() is called again and again.  A recording that has lost its file
\* is followed until it ends: Drift is the regular iteration (no button
\* press, one sample interval after the previous one) of a recording with
\* no file open, outside the bounds on Loop and Run, and it is always
\* taken in the end.  DriftWindows bounds how long such a recording is
\* followed.
\* ---------------------------------------------------------------------
Drift ==
  /\ state = "RECORDING"
  /\ ~logFile.open
  /\ clock - hist.lastBatchAt < DriftWindows * BATCH_WINDOW_MS
  /\ \E r \in {Regular(Cur, clock)} : Set(r)
  /\ clock' = clock + LOG_INTERVAL_MS
  /\ UNCHANGED <<env, budget>>

InitLive ==
  /\ fw \in Builds
  /\ rtc \in BOOLEAN
  /\ probe = AllOk
  /\ card = <<>>
  /\ Booted

NextLive == Loop \/ Run \/ Steady \/ Drift

SpecLive == InitLive /\ [][NextLive]_vars /\ WF_vars(Drift)

\* ---------------------------------------------------------------------
\* Sessions started and stopped by the button in quick succession.
\* buttonPressedEdge() reports a press when the level has been LOW for more
\* than DEBOUNCE_MS after having been HIGH for more than DEBOUNCE_MS, so
\* two presses can follow each other well within a second.
\* ---------------------------------------------------------------------
DEBOUNCE_MS == Q(40)
\* time from one press to the next: a fifth of a second, or a second
PressGaps == {g \in {Q(200), Q(1000)} : g > 2 * DEBOUNCE_MS}

\* an iteration of loop() in which buttonPressedEdge() returns true
Press ==
  /\ nPress < MaxToggles
  /\ \E dt \in PressGaps :
       /\ \E s0 \in {[Cur EXCEPT !.trace = <<"loop">>]} :
          \E r \in {loop(s0, clock + dt, 0, TRUE, TRUE, "ok", 0, 0)} :
             Set(r)
       /\ clock' = clock + dt
  /\ nPress' = nPress + 1
  /\ UNCHANGED <<env, nTicks, nOdd, nFault, nRuns, nSteady>>

\* a regular iteration of a recording
Tick ==
  /\ nTicks < MaxTicks
  /\ state = "RECORDING"
  /\ \E r \in {Regular(Cur, clock)} : Set(r)
  /\ clock' = clock + LOG_INTERVAL_MS
  /\ nTicks' = nTicks + 1
  /\ UNCHANGED <<env, nOdd, nPress, nFault, nRuns, nSteady>>

NextPress == Press \/ Tick \/ Steady

SpecPress == InitLive /\ [][NextPress]_vars

\* ---------------------------------------------------------------------
\* Reading the calls of a handler
\* ---------------------------------------------------------------------
Has(e) == \E i \in 1..Len(trace) : trace[i] = e
Did(e) == \E i \in 1..Len(trace') : trace'[i] = e

FlushEvents == {"flush:ok", "flush:short", "flush:nofile"}
FlushFailures == {"flush:short", "flush:nofile"}

\* index of the first flush after position i of tr, 0 if none
FlushAfter(tr, i) ==
  LET js == {j \in (i + 1)..Len(tr) : tr[j] \in FlushEvents}
  IN IF js = {} THEN 0 ELSE CHOOSE j \in js : \A k \in js : j <= k

\* position of the batch block's flush decision, 0 if it has not flushed
BatchAt(tr) ==
  LET js == {j \in 1..Len(tr) : tr[j] = "batch"}
  IN IF js = {} THEN 0 ELSE CHOOSE j \in js : \A k \in js : j <= k

\* the scheduled flush of the iteration was attempted and succeeded
ScheduledFlushOk(tr) ==
  /\ BatchAt(tr) # 0
  /\ FlushAfter(tr, BatchAt(tr)) # 0
  /\ tr[FlushAfter(tr, BatchAt(tr))] = "flush:ok"

\* ---------------------------------------------------------------------
\* Properties
\* ---------------------------------------------------------------------

\* C1: a start request made in Idle whose SD.begin() or open fails leaves
\* the state Idle, adds no line to the batch buffer, leaves no file open
\* and the LED off (so Recording is reached only with the medium ready and
\* the file open).
C1_StartNeedsStorage ==
  [][ (state = "IDLE" /\ Did("start")
         /\ (Did("begin:fail") \/ Did("open:fail")))
      => (state' = "IDLE" /\ batchBuf' = batchBuf
            /\ ~logFile'.open /\ ~led') ]_vars

\* C2: when a flush attempted by an iteration fails, the iteration ends in
\* Idle with the file closed and the LED off; and nothing is latched: once
\* a flush has failed, a start with working storage still ends Recording
\* with the file open and the LED on.
C2_FlushFailureStops ==
  /\ (\E i \in 1..Len(trace) : trace[i] \in FlushFailures)
       => (state = "IDLE" /\ ~logFile.open /\ ~led)
  /\ (hist.failed /\ Has("start") /\ Has("begin:ok") /\ Has("open:ok"))
       => (state = "RECORDING" /\ logFile.open /\ led)

\* the scheduled flush failed in an earlier iteration and this iteration
\* started a new session
C2_RestartedAfterFailure ==
  /\ hist.failed
  /\ Has("start")
  /\ state = "RECORDING"
  /\ logFile.open

\* C3: an iteration whose rotation closed the file and failed to open the
\* new one ends in Idle with the LED off.
C3_RotationFailureStops ==
  (Has("rotate") /\ Has("open:fail")) => (state = "IDLE" /\ ~led)

\* C4: after setRecording(false) has run, the batch buffer is empty and no
\* file is open.
C4_StopLeavesNothing ==
  Has("stop") => (batchBuf = <<>> /\ ~logFile.open)

\* C5: an iteration in which setRecording(false) ran ends in Idle with the
\* LED off, and each run of it attempts exactly one flush, before the file
\* is closed.
C5_StopFlushesOnceThenCloses ==
  \A i \in 1..Len(trace) :
    trace[i] = "stop" =>
      LET later == {j \in (i + 1)..Len(trace) : trace[j] = "stop"}
          end   == IF later = {} THEN Len(trace)
                   ELSE (CHOOSE j \in later : \A k \in later : j <= k) - 1
          seg   == (i + 1)..end
          fl    == {j \in seg : trace[j] \in FlushEvents}
      IN /\ Cardinality(fl) = 1
         /\ \A j \in seg : trace[j] = "close" => \E k \in fl : k < j
         /\ \E j \in seg : trace[j] = "led:off"
         /\ state = "IDLE"
         /\ ~led

\* the button stopped a recording whose final flush was written short
C5_StoppedWithFailedFlush ==
  /\ Len(trace) >= 4
  /\ trace[2] = "stop"
  /\ trace[3] = "flush:short"
  /\ Has("close")
  /\ state = "IDLE"

\* C6: the batch buffer never holds more than batch window / sample
\* interval (= 12) lines.
C6_BatchWithinCapacity ==
  /\ batchCount >= 0
  /\ batchCount <= BATCH_WINDOW_MS \div LOG_INTERVAL_MS

\* the buffer is full (left so by a flush that failed)
C6_BufferFull == batchCount = BATCH_WINDOW_MS \div LOG_INTERVAL_MS

\* C7: in an iteration that reaches the batch block, a flush is attempted
\* exactly when the time since lastBatchMs was set is at least the batch
\* window or the buffer holds BATCH_MAX_LINES lines.
C7_FlushSchedule ==
  (Has("batch") \/ Has("nobatch"))
    => (Has("batch") <=> (\/ hist.since >= BATCH_WINDOW_MS
                          \/ hist.held >= BATCH_MAX_LINES))

AllTaken ==
  \A i \in 1..MAX_SUFFIX : [BasePath(clock) EXCEPT !.suf = i] \in DOMAIN card

\* C9: openNewSessionFile(true) with all 99 suffixed names taken fails:
\* no file is open afterwards and the card is as it was.
C9_ExhaustedOpenFails ==
  [][ (AllTaken /\ Did("openNewSessionFile(true)"))
      => (~logFile'.open /\ card' = card) ]_vars

\* C10: within a session the seq of a record is larger than that of the
\* record before it, and is the uint32_t elapsed time since recStartMs
\* divided by the sample interval.
C10_SeqIncreasing ==
  /\ hist.samples >= 2 => hist.lastSeq > hist.prevSeq
  /\ hist.samples >= 1 =>
       hist.lastSeq =
         Sub32(millis(hist.lastLogAt), recStartMs) \div LOG_INTERVAL_MS

\* the first call of the step that has just been taken
Called(op) == Len(trace') >= 1 /\ trace'[1] = op

\* C11: a call of flushBatchToFile() that succeeds appends the buffered
\* lines to the session file in buffer order, leaves everything in the
\* file durable and the buffer empty; when the buffer held lines, it
\* issues logFile.flush() and the file grows by the total length of the
\* lines, which is more than nothing.
C11_FlushWritesInOrder ==
  [][ (Called("flushBatchToFile") /\ Did("flush:ok")) =>
        LET old == card[logFile.path]
            new == card'[logFile.path]
        IN /\ new.rows = old.rows \o batchBuf
           /\ new.synced = Len(new.rows)
           /\ batchBuf' = <<>>
           /\ batchBuf # <<>> =>
                 /\ Did("sync")
                 /\ new.bytes = old.bytes + SumLen(batchBuf)
                 /\ new.bytes > old.bytes ]_vars

\* a flush has just written three or more lines
C11_Flushed ==
  /\ trace = <<"flushBatchToFile", "sync", "flush:ok">>
  /\ batchBuf = <<>>
  /\ Len(card[logFile.path].rows) >= 5
  /\ card[logFile.path].rows[3].k = "row"
  /\ card[logFile.path].rows[5].seq > card[logFile.path].rows[3].seq

\* C12: a call of flushBatchToFile() in which a print() returns short
\* reports failure: the lines written are a proper prefix of the buffer
\* (nothing after the short line), logFile.flush() is not issued and the
\* buffer keeps all its lines.
C12_ShortWriteFailsWhole ==
  [][ (Called("flushBatchToFile") /\ Did("flush:short")) =>
        LET old == card[logFile.path]
            new == card'[logFile.path]
        IN /\ \E k \in 1..Len(batchBuf) :
                 new.rows = old.rows \o SubSeq(batchBuf, 1, k - 1)
           /\ ~Did("sync")
           /\ ~Did("flush:ok")
           /\ new.synced = old.synced
           /\ batchBuf' = batchBuf ]_vars

\* the second print() of a flush was short: one line reached the file,
\* unflushed, and the buffer still holds all its lines
C12_HalfWritten ==
  /\ trace = <<"flushBatchToFile", "flush:short">>
  /\ batchCount >= 2
  /\ Len(card[logFile.path].rows) = card[logFile.path].synced + 1

\* C13: every session file begins with the complete manifest and then the
\* CSV header line, both flushed, and holds nothing but data rows after
\* them.
C13_HeadBeforeRows ==
  \A p \in DOMAIN card :
    LET f == card[p]
    IN /\ Len(f.rows) >= 2
       /\ f.rows[1].k = "manifest"
       /\ f.rows[2].k = "header"
       /\ f.synced >= 2
       /\ \A i \in 3..Len(f.rows) : f.rows[i].k \in {"row", "bulk"}

\* C14: an iteration in which SD.begin() failed, SD.open() failed or a
\* println() of the manifest or of the CSV header wrote nothing has its
\* open report failure and ends with no file open.
C14_OpenFailureCloses ==
  (Has("begin:fail") \/ Has("open:fail") \/ Has("head:short"))
    => (~logFile.open /\ ~Has("open:ok"))

\* C15: at most one File handle is open at any time: every SD.open() that
\* succeeds finds the handle opened before it closed, and the handle that
\* logFile holds is the only one.
C15_OneFileOpen ==
  /\ hist.handles <= 1
  /\ hist.handles = (IF logFile.open THEN 1 ELSE 0)

\* a rotation has closed one file and opened the next
C15_Reopened ==
  /\ Has("rotate")
  /\ Has("close")
  /\ logFile.open
  /\ hist.handles = 1
  /\ logFile.path.suf >= 1

\* C16: appendLineToBatch() called on a buffer that holds BATCH_MAX_LINES
\* lines reports failure and leaves the buffer as it was.  When the flush
\* behind it succeeds, it has written exactly the old lines, the same
\* record is appended and is then the only line of the buffer.  When that
\* flush fails, the refused record is in neither the buffer nor the file:
\* they hold the old lines only.
C16_FullAppendFails ==
  [][ /\ (Called("sample block") /\ batchCount >= BATCH_MAX_LINES)
          => (Len(trace') >= 3 /\ trace'[3] = "append:full")
      /\ Did("append:full") =>
          LET old == card[logFile.path]
              new == card'[logFile.path]
              was == {batchBuf[i] : i \in 1..batchCount}
          IN /\ batchCount = BATCH_MAX_LINES
             /\ IF Len(trace') >= 5 /\ trace'[5] = "flush:ok"
                  THEN /\ new.rows = old.rows \o batchBuf
                       /\ Did("append:ok")
                       /\ batchBuf' =
                            << Line(latestTemps',
                                    Sub32(millis(hist'.lastLogAt), recStartMs'),
                                    hist'.lastSeq) >>
                  ELSE /\ batchBuf' \in {batchBuf, <<>>}
                       /\ ~Did("append:ok")
                       /\ ~logFile.open => batchBuf' = batchBuf
                       /\ logFile.open =>
                             \A i \in (Len(old.rows) + 1)..Len(new.rows) :
                               new.rows[i] \in was ]_vars

\* the thirteenth record found the buffer full, was refused, and went in
\* after the flush
C16_RetriedAppend ==
  /\ trace = <<"sample block", "sample", "append:full", "sync", "flush:ok",
               "append:ok">>
  /\ batchCount = 1
  /\ batchBuf[1].seq = BATCH_MAX_LINES + 1

\* hundredths of a second from recStartMs to the start of the last
\* iteration, on the scale of the elapsed_s field of a line
NowCs == ElapsedCs(clock - hist.recStartAt)

\* C17: while recording, at the end of an iteration every line in the
\* batch buffer was sampled less than one batch window before the time of
\* the iteration.
C17_NoStaleLines ==
  state = "RECORDING" =>
    \A i \in 1..batchCount :
      NowCs - batchBuf[i].es < ElapsedCs(BATCH_WINDOW_MS)

\* eleven lines are held and the oldest is 50 s old
C17_ElevenHeld ==
  /\ state = "RECORDING"
  /\ batchCount = BATCH_MAX_LINES - 1
  /\ NowCs - batchBuf[1].es = ElapsedCs(BATCH_WINDOW_MS - 2 * LOG_INTERVAL_MS)

\* C18: a call of setRecording(true) made in IDLE that opens its file
\* returns with the state RECORDING, the batch buffer empty, recStartMs,
\* lastLogMs and lastBatchMs all equal to millis() at that moment, and the
\* LED on.
C18_StartResetsSession ==
  [][ (Called("setRecording(true)") /\ state = "IDLE" /\ Did("open:ok")) =>
        /\ state' = "RECORDING"
        /\ batchBuf' = <<>>
        /\ recStartMs' = millis(clock')
        /\ lastLogMs' = millis(clock')
        /\ lastBatchMs' = millis(clock')
        /\ led' ]_vars

\* a second session has been started after one that a failed flush ended
C18_Restarted ==
  /\ trace = <<"setRecording(true)", "start", "begin:ok", "open:ok", "sync",
               "led:on">>
  /\ hist.failed
  /\ state = "RECORDING"
  /\ recStartMs = millis(clock)
  /\ Cardinality(DOMAIN card) = 2

\* C19: an iteration of loop() entered in IDLE without a button press
\* calls nothing of the recording core: the state, the batch buffer, the
\* files on the card, the file handle, recStartMs, lastLogMs, lastBatchMs
\* and the LED are as before.
C19_IdleTickIsNoOp ==
  [][ (state = "IDLE" /\ Called("loop") /\ ~Did("start")) =>
        /\ trace' = <<"loop">>
        /\ state' = "IDLE"
        /\ batchBuf' = batchBuf
        /\ card' = card
        /\ logFile' = logFile
        /\ recStartMs' = recStartMs
        /\ lastLogMs' = lastLogMs
        /\ lastBatchMs' = lastBatchMs
        /\ led' = led ]_vars

\* an iteration has passed in IDLE after a session was recorded and
\* stopped
C19_IdleAfterSession ==
  /\ trace = <<"loop">>
  /\ state = "IDLE"
  /\ DOMAIN card # {}
  /\ ~logFile.open
  /\ Sub32(millis(clock), lastLogMs) >= LOG_INTERVAL_MS

\* a channel carries the fault marker: the MAX6675 reports an open circuit
\* or a temperature outside -10 .. 1100 degrees
Faulty(i) == probe[i] = NAN \/ probe[i] < TEMP_MIN \/ probe[i] > TEMP_MAX

\* the record sampled by the step just taken: the last line of the
\* buffer, or of the file the step began with when a flush has emptied
\* the buffer
SampledLine ==
  IF batchBuf' # <<>> THEN batchBuf'[Len(batchBuf')]
  ELSE card'[logFile.path].rows[Len(card'[logFile.path].rows)]

\* C20: an iteration that samples while recording to an open file, with no
\* button press and no storage failure, and with one or more channels
\* faulty, appends exactly one record, which has NaN in exactly the faulty
\* channels; the state stays RECORDING and the file stays open (closed
\* only by a rotation, which opens the next one).
C20_FaultIsNotFatal ==
  [][ ( /\ state = "RECORDING" /\ logFile.open
        /\ Called("loop") /\ Did("sample")
        /\ nPress' = nPress /\ nFault' = nFault
        /\ \E i \in 1..NUM_TC : Faulty(i) ) =>
        /\ Cardinality({j \in 1..Len(trace') : trace'[j] = "append:ok"}) = 1
        /\ SampledLine.k = "row"
        /\ SampledLine.seq = hist'.lastSeq
        /\ \A i \in 1..NUM_TC : (SampledLine.ch[i] = "NaN") <=> Faulty(i)
        /\ state' = "RECORDING"
        /\ logFile'.open
        /\ Did("close") => Did("rotate") ]_vars

\* a record with every channel faulty is in the buffer and the recording
\* goes on
C20_AllChannelsNaN ==
  /\ state = "RECORDING"
  /\ logFile.open
  /\ Has("sample")
  /\ batchCount >= 2
  /\ \A i \in 1..NUM_TC : batchBuf[batchCount].ch[i] = "NaN"

\* C21: the LED is written by setRecording() only: a step in which
\* setRecording() did not run leaves the LED as it was and makes no
\* digitalWrite(PIN_LED), and every write of a step comes after the
\* "start" or "stop" that opens a call of setRecording().  At the start
\* and at the end of every iteration the LED is on exactly when the state
\* is RECORDING.
C21_LedFollowsState ==
  /\ [](led <=> state = "RECORDING")
  /\ [][ /\ (~Did("start") /\ ~Did("stop"))
             => (led' = led /\ ~Did("led:on") /\ ~Did("led:off"))
         /\ \A i \in 1..Len(trace') :
              trace'[i] \in {"led:on", "led:off"} =>
                \E j \in 1..(i - 1) : trace'[j] \in {"start", "stop"} ]_vars

\* the LED has gone on, off and on again with two sessions
C21_SecondSessionLit ==
  /\ led
  /\ state = "RECORDING"
  /\ Has("led:on")
  /\ nPress >= 2
  /\ Cardinality(DOMAIN card) >= 1

\* position of the last call in tr that sets batchCount = 0 with the file
\* open (a flush that succeeded, a file that was opened), 0 if none
LastDrain(tr) ==
  LET js == {j \in 1..Len(tr) : tr[j] \in {"flush:ok", "open:ok"}}
  IN IF js = {} THEN 0 ELSE CHOOSE j \in js : \A k \in js : j >= k

AppendsAfter(tr, i) ==
  Cardinality({j \in (i + 1)..Len(tr) : tr[j] = "append:ok"})

\* the state at position i of the calls tr of the step just taken: decided
\* by the last LED write before it, which sits next to the write of state
RecordingAt(tr, i) ==
  LET ls == {j \in 1..(i - 1) : tr[j] \in {"led:on", "led:off"}}
  IN IF ls = {} THEN state = "RECORDING"
     ELSE tr[CHOOSE j \in ls : \A k \in ls : j >= k] = "led:on"

\* C22: in an iteration of loop(), the batch buffer loses lines only by a
\* flush that succeeds or by the opening of a session file: without
\* either, the buffer at the end is the buffer at the start followed by
\* the lines appended; with one, it holds just the lines appended after
\* the last of them.  Every append is made in the state RECORDING.
C22_DrainedOnlyByFlushOrOpen ==
  [][ nTicks' # nTicks =>
        LET tr == trace'
            e  == LastDrain(tr)
            a  == AppendsAfter(tr, e)
        IN /\ e = 0 => /\ Len(batchBuf') = Len(batchBuf) + a
                       /\ SubSeq(batchBuf', 1, Len(batchBuf)) = batchBuf
           /\ e # 0 => Len(batchBuf') = a
           /\ \A i \in 1..Len(tr) :
                tr[i] = "append:ok" => RecordingAt(tr, i) ]_vars

\* C23: at the start and at the end of every iteration of loop() the
\* session file is open exactly when the state is RECORDING.
C23_FileOpenIffRecording == logFile.open <=> state = "RECORDING"

\* the last rotation closed its file and could not open the next one, and
\* no file has been opened since
RotationFailed ==
  /\ ~logFile.open
  /\ logFile.path \in DOMAIN card
  /\ card[logFile.path].bytes >= ROTATE_BYTES
  /\ sessionPath # logFile.path

\* C24: a recording left without a file by a failed rotation ends in IDLE
\* when loop() keeps being called; when no button is pressed before that,
\* it is ended by the next flush attempt, which finds no file, and that
\* attempt is made by the first iteration that comes one batch window
\* after the rotation, or earlier.
C24_FailedRotationEndsIdle ==
  \A n \in 0..MaxPresses :
    (RotationFailed /\ state = "RECORDING" /\ nPress = n)
      ~> (state = "IDLE"
            /\ (nPress = n =>
                  /\ Has("flush:nofile")
                  /\ hist.since < BATCH_WINDOW_MS + LOG_INTERVAL_MS))

\* the flush after a failed rotation has found no file and stopped the
\* recording, with the lines sampled since the rotation still in the buffer
C24_StoppedAfterRotation ==
  /\ RotationFailed
  /\ state = "IDLE"
  /\ Has("flush:nofile")
  /\ ~Has("start")
  /\ batchCount >= 1

\* C25: no session file holds the same sample record twice.  (Two samples
\* of a session are a sample interval or more apart, so two records of a
\* file that are equal are one buffered line written two times.)
C25_NoRecordTwice ==
  \A p \in DOMAIN card :
    \A i, j \in 1..Len(card[p].rows) :
      (i < j /\ card[p].rows[i].k = "row") => card[p].rows[i] # card[p].rows[j]

\* C26: at the start and at the end of every iteration of loop() a
\* recording holds fewer than BATCH_MAX_LINES lines in the batch buffer,
\* and no iteration has its appendLineToBatch() refused: every sample
\* taken is appended at once, and the flush-and-retry branch is not
\* entered.
C26_RetryNeverTaken ==
  /\ state = "RECORDING" => batchCount < BATCH_MAX_LINES
  /\ ~Has("append:full")
  /\ \A i \in 1..Len(trace) :
       trace[i] = "sample" => (i < Len(trace) /\ trace[i + 1] = "append:ok")

\* the twelfth line went into the buffer and the batch block of the same
\* iteration flushed all twelve
C26_TwelfthLineFlushed ==
  /\ state = "RECORDING"
  /\ Has("append:ok")
  /\ Has("batch")
  /\ hist.held = BATCH_MAX_LINES
  /\ batchCount = 0

\* C27: every SD.open() of a session file, by a start or by a rotation,
\* opens a path that no session file of this power cycle has (the card is
\* empty at power-up, so the files on it are those opened since).
C27_SessionPathsDistinct ==
  [][ Did("open:ok") => logFile'.path \notin DOMAIN card ]_vars
====
